---- MODULE Spec2Model ----
(***************************************************************************)
(* Model of src/data/generate_data.py: the data-generation pipeline of     *)
(* main() over one database connection.                                    *)
(*                                                                         *)
(* Money is kept in integer cents, discount percents in hundredths of a    *)
(* percent, markup factors in thousandths, dates in whole days.            *)
(* Row attributes that no generator reads back and that are pure filler    *)
(* (names, e-mails, descriptions, SKU, payment method, stock levels,       *)
(* rating, priority, issue type) are left out of the rows.                 *)
(*                                                                         *)
(* The connection is modelled by two copies of the schema: db is what the  *)
(* connection sees (committed rows plus the rows of the open transaction), *)
(* durable is what has been committed.  conn.commit() copies db to         *)
(* durable, conn.rollback() copies durable to db.                          *)
(***************************************************************************)
EXTENDS Integers, Sequences, FiniteSets, TLC

(***************************************************************************)
(* Bounds of the model.  The Num* definitions stand for the count          *)
(* arguments main() leaves at their defaults (10, 30, 300, 5, 3000, 5000,  *)
(* 1500, 500) and BatchSize for the 500 of the batch commit.               *)
(***************************************************************************)
NumCategories == 1
NumSuppliers == 1
NumProducts == 2
NumWarehouses == 2
NumCustomers == 1
NumOrders == 3
BatchSize == 2
NumReviews == 1
NumTickets == 1
\* how many times the script is started against the same database
MaxRuns == 2
\* how many rows of one behaviour may be drawn away from the first element
\* of every random pool (bounds the nondeterminism of random / Faker)
MaxVaried == 1

(***************************************************************************)
(* Program constants.                                                      *)
(***************************************************************************)
None == -1
MarkupScale == 1000
MarkupLow == 1500
MarkupHigh == 3000
CostLow == 1000
CostHigh == 30000
MaxWarehousesPerProduct == 2
MaxItemsPerOrder == 4
ShipDaysLow == 1
ShipDaysHigh == 3
DeliveryDaysLow == 2
DeliveryDaysHigh == 7
ResolveDaysLow == 1
ResolveDaysHigh == 10
PercentScale == 10000

OrderStatuses == <<"Delivered", "Delivered", "Delivered", "Shipped", "Processing">>
TicketStatuses == <<"Open", "In Progress", "Resolved", "Closed">>

(***************************************************************************)
(* Pools the random draws are taken from: the end points of the ranges     *)
(* of the code, and for the amounts a few values inside them.              *)
(***************************************************************************)
CostPool == {CostLow, CostHigh}
MarkupPool == {MarkupLow, MarkupHigh}
OrderDatePool == {100, 465}
DiscountPool == {0, 2000, 3000}
ShippingPool == {500, 2000}
QuantityPool == 1..3
DiscPctPool == {0, 2000}
CreatedPool == {300, 465}

VARIABLES
    db,            \* the schema as the connection sees it
    durable,       \* the committed schema
    nextId,        \* the next identifier each table assigns
    category_ids, supplier_ids, product_ids, warehouse_ids, customer_ids,
    phase,         \* "idle", "running", "done", "failed", "noconn"
    pc,            \* the generator main() is in
    step,          \* the position inside the generator
    i,             \* iterations of the generator's loop completed so far
    cur,           \* generate_orders: locals of the order being built
    runLog,        \* one record per start of main(): what the run found
    varied,        \* rows that may still be drawn away from the defaults
    calc           \* generate_products: cost, markup and price of one row

vars == <<db, durable, nextId, category_ids, supplier_ids, product_ids,
          warehouse_ids, customer_ids, phase, pc, step, i, cur, runLog,
          varied, calc>>

Tables == {"categories", "suppliers", "products", "warehouses", "inventory",
           "customers", "orders", "order_items", "reviews",
           "customer_support_tickets"}

Stages == <<"categories", "suppliers", "products", "warehouses", "inventory",
            "customers", "orders", "reviews", "tickets">>

EmptySchema == [t \in Tables |-> <<>>]

NoOrder == [order_id |-> 0, selected |-> <<>>, subtotal |-> 0,
            shipping |-> 0, discount |-> 0]

NoCalc == [cost |-> 0, markup |-> 0, price |-> None]

(***************************************************************************)
(* Helpers.                                                                *)
(***************************************************************************)
Range(s) == {s[k] : k \in 1..Len(s)}

\* the identifiers of a table's rows, in table order (SELECT id FROM t)
SelectIds(schema, t) == [k \in 1..Len(schema[t]) |-> schema[t][k].id]

Ids(schema, t) == Range(SelectIds(schema, t))

RECURSIVE SumSeq(_)
SumSeq(s) == IF s = <<>> THEN 0 ELSE Head(s) + SumSeq(Tail(s))

Min(a, b) == IF a < b THEN a ELSE b

\* round(n / d) for n >= 0, d > 0, ties to even (Python's round)
Round(n, d) ==
    LET q == n \div d
        r == n % d
    IN  IF 2 * r < d THEN q
        ELSE IF 2 * r > d THEN q + 1
        ELSE IF q % 2 = 0 THEN q ELSE q + 1

\* a sample drawn with replacement
SampleWithReplacement(pool, k) == [1..k -> Range(pool)]

\* random.sample(pool, k): the sequences of k pairwise distinct elements
Sample(pool, k) ==
    {s \in [1..k -> Range(pool)] : \A a, b \in 1..k : a # b => s[a] # s[b]}

\* the first k elements of the pool: the draw taken as the default one
FirstSample(pool, k) == [a \in 1..k |-> pool[a]]

\* INSERT of rows into table t: each row is appended and gets the table's
\* next identifier; the identifier counter is not part of the transaction
WithIds(t, rows) == [k \in 1..Len(rows) |-> rows[k] @@ [id |-> nextId[t] + k - 1]]

InsertRows(t, rows) ==
    /\ db' = [db EXCEPT ![t] = @ \o WithIds(t, rows)]
    /\ nextId' = [nextId EXCEPT ![t] = @ + Len(rows)]

\* one row is drawn: from the defaults, or from anywhere while rows may vary
Spend(isDefault) ==
    /\ isDefault \/ varied > 0
    /\ varied' = IF isDefault THEN varied ELSE varied - 1

Init ==
    /\ db = EmptySchema
    /\ durable = EmptySchema
    /\ nextId = [t \in Tables |-> 1]
    /\ category_ids = <<>>
    /\ supplier_ids = <<>>
    /\ product_ids = <<>>
    /\ warehouse_ids = <<>>
    /\ customer_ids = <<>>
    /\ phase = "idle"
    /\ pc = "categories"
    /\ step = "loop"
    /\ i = 0
    /\ cur = NoOrder
    /\ runLog = <<>>
    /\ varied = MaxVaried
    /\ calc = NoCalc

idVars == <<category_ids, supplier_ids, product_ids, warehouse_ids, customer_ids>>

(***************************************************************************)
(* main(): connect_db() and the start of the try block.                    *)
(***************************************************************************)
RunRecord(outcome) ==
    [first |-> nextId,
     before |-> [t \in Tables |-> Len(durable[t])],
     outcome |-> outcome]

\* the script is started: on a fresh database, after a run that completed,
\* or after a start that found no connection (a run that failed is left to
\* the operator: the model does not start the script again after it)
Startable == phase \in {"idle", "done", "noconn"} /\ Len(runLog) < MaxRuns

StartRun ==
    /\ Startable
    /\ runLog' = Append(runLog, RunRecord("running"))
    /\ phase' = "running"
    /\ pc' = "categories"
    /\ step' = "loop"
    /\ i' = 0
    /\ cur' = NoOrder
    /\ category_ids' = <<>>
    /\ supplier_ids' = <<>>
    /\ product_ids' = <<>>
    /\ warehouse_ids' = <<>>
    /\ customer_ids' = <<>>
    /\ UNCHANGED <<db, durable, nextId, varied, calc>>

\* connect_db() fails: sys.exit(1) before any generator runs
ConnectFail ==
    /\ Startable /\ phase # "noconn"
    /\ phase' = "noconn"
    /\ UNCHANGED <<db, durable, nextId, idVars, pc, step, i, cur, runLog,
                   varied, calc>>

InStage(s) == phase = "running" /\ pc = s

LastRun == Len(runLog)

(***************************************************************************)
(* generate_categories, generate_suppliers, generate_warehouses,           *)
(* generate_customers: one INSERT per loop iteration.                      *)
(***************************************************************************)
GenerateCategoriesInsert ==
    /\ InStage("categories") /\ step = "loop" /\ i < NumCategories
    /\ InsertRows("categories", <<[category_name |-> i + 1]>>)
    /\ i' = i + 1
    /\ UNCHANGED <<durable, idVars, phase, pc, step, cur, runLog, varied, calc>>

GenerateSuppliersInsert ==
    /\ InStage("suppliers") /\ step = "loop" /\ i < NumSuppliers
    /\ InsertRows("suppliers", <<[active |-> TRUE]>>)
    /\ i' = i + 1
    /\ UNCHANGED <<durable, idVars, phase, pc, step, cur, runLog, varied, calc>>

GenerateWarehousesInsert ==
    /\ InStage("warehouses") /\ step = "loop" /\ i < NumWarehouses
    /\ InsertRows("warehouses", <<[active |-> TRUE]>>)
    /\ i' = i + 1
    /\ UNCHANGED <<durable, idVars, phase, pc, step, cur, runLog, varied, calc>>

GenerateCustomersInsert ==
    /\ InStage("customers") /\ step = "loop" /\ i < NumCustomers
    /\ InsertRows("customers", <<[segment |-> "New"]>>)
    /\ i' = i + 1
    /\ UNCHANGED <<durable, idVars, phase, pc, step, cur, runLog, varied, calc>>

(***************************************************************************)
(* generate_products.                                                      *)
(***************************************************************************)
\* a price that leaves the markup out
PriceOfNoMarkup(cost, markup) == Round(cost * MarkupScale, MarkupScale)

\* price = round(cost * random.uniform(1.5, 3.0), 2), in cents
PriceOf(cost, markup) == Round(cost * markup, MarkupScale)

GenerateProductsInsert ==
    /\ InStage("products") /\ step = "loop" /\ i < NumProducts
    /\ \E cost \in CostPool, markup \in MarkupPool,
          category_id \in Range(category_ids), supplier_id \in Range(supplier_ids) :
          /\ Spend(/\ cost = CostLow /\ markup = MarkupLow
                   /\ category_id = category_ids[1] /\ supplier_id = supplier_ids[1])
          /\ InsertRows("products", <<[category_id |-> category_id,
                                       supplier_id |-> supplier_id,
                                       price |-> PriceOf(cost, markup),
                                       cost |-> cost]>>)
    /\ i' = i + 1
    /\ UNCHANGED <<durable, idVars, phase, pc, step, cur, runLog, calc>>

(***************************************************************************)
(* generate_inventory: one iteration of the loop over product_ids.         *)
(***************************************************************************)
\* min(num_wh, len(warehouse_ids))
WarehouseCount(num_wh, pool) == Min(num_wh, Len(pool))

InventoryRows(product_id, selected_wh) ==
    [k \in 1..Len(selected_wh) |->
        [product_id |-> product_id, warehouse_id |-> selected_wh[k]]]

GenerateInventoryProduct ==
    /\ InStage("inventory") /\ step = "loop" /\ i < Len(product_ids)
    /\ \E num_wh \in 1..MaxWarehousesPerProduct :
          \E selected_wh \in Sample(warehouse_ids, WarehouseCount(num_wh, warehouse_ids)) :
             /\ Spend(/\ num_wh = 1
                      /\ selected_wh = FirstSample(warehouse_ids, Len(selected_wh)))
             /\ InsertRows("inventory", InventoryRows(product_ids[i + 1], selected_wh))
    /\ i' = i + 1
    /\ UNCHANGED <<durable, idVars, phase, pc, step, cur, runLog, calc>>

(***************************************************************************)
(* generate_orders.                                                        *)
(***************************************************************************)
ShippingDate(status, order_date, days) ==
    IF status \in {"Shipped", "Delivered"} THEN order_date + days ELSE None

\* a delivery date given to every order that was shipped
DeliveryDateWhenShipped(status, shipping_date, days) ==
    IF status \in {"Shipped", "Delivered"} THEN shipping_date + days ELSE None

DeliveryDate(status, shipping_date, days) ==
    IF status = "Delivered" THEN shipping_date + days ELSE None

\* the order row and its locals up to RETURNING order_id
GenerateOrdersInsertOrder ==
    /\ InStage("orders") /\ step = "loop" /\ i < NumOrders
    /\ \E customer_id \in Range(customer_ids), order_date \in OrderDatePool,
          s \in DOMAIN OrderStatuses,
          ship_days \in ShipDaysLow..ShipDaysHigh,
          delivery_days \in DeliveryDaysLow..DeliveryDaysHigh,
          discount \in DiscountPool, shipping \in ShippingPool :
          LET status == OrderStatuses[s]
              shipping_date == ShippingDate(status, order_date, ship_days)
              delivery_date == DeliveryDate(status, shipping_date, delivery_days)
          IN  \* a delta is drawn only for the status that uses it
              /\ status = "Processing" => ship_days = ShipDaysLow
              /\ status # "Delivered" => delivery_days = DeliveryDaysLow
              /\ Spend(/\ customer_id = customer_ids[1]
                       /\ order_date = CHOOSE d \in OrderDatePool :
                                          \A e \in OrderDatePool : d <= e
                       /\ s = 1
                       /\ ship_days = ShipDaysLow /\ delivery_days = DeliveryDaysLow
                       /\ discount = 0
                       /\ shipping = CHOOSE d \in ShippingPool :
                                        \A e \in ShippingPool : d <= e)
              /\ InsertRows("orders", <<[customer_id |-> customer_id,
                                         order_date |-> order_date,
                                         status |-> status,
                                         total_amount |-> 0,
                                         discount_amount |-> discount,
                                         shipping_cost |-> shipping,
                                         shipping_date |-> shipping_date,
                                         delivery_date |-> delivery_date]>>)
              /\ cur' = [order_id |-> nextId["orders"], selected |-> <<>>,
                         subtotal |-> 0, shipping |-> shipping,
                         discount |-> discount]
    /\ step' = "sample"
    /\ UNCHANGED <<durable, idVars, phase, pc, i, runLog, calc>>

\* min(num_items, len(product_ids))
ItemCount(num_items, pool) == Min(num_items, Len(pool))

\* num_items, subtotal = 0.0 and random.sample
GenerateOrdersSelectProducts ==
    /\ InStage("orders") /\ step = "sample"
    /\ \E num_items \in 1..MaxItemsPerOrder :
          \E selected_products \in Sample(product_ids, ItemCount(num_items, product_ids)) :
             /\ Spend(/\ num_items = 1
                      /\ selected_products =
                            FirstSample(product_ids, Len(selected_products)))
             /\ cur' = [cur EXCEPT !.selected = selected_products, !.subtotal = 0]
    /\ step' = "items"
    /\ UNCHANGED <<db, durable, nextId, idVars, phase, pc, i, runLog, calc>>

\* SELECT price FROM products WHERE product_id = %s
PriceOfProduct(product_id) ==
    LET rows == SelectSeq(db["products"], LAMBDA r : r.id = product_id)
    IN  rows[1].price

\* round(unit_price * quantity * (1 - disc_pct/100), 2), in cents; the
\* product is split at PercentScale to stay inside 32-bit integers
LineTotal(unit_price, quantity, disc_pct) ==
    LET gross == unit_price * quantity
        keep == PercentScale - disc_pct
        whole == (gross \div PercentScale) * keep
        rest == (gross % PercentScale) * keep
        q == whole + (rest \div PercentScale)
        r == rest % PercentScale
    IN  IF 2 * r < PercentScale THEN q
        ELSE IF 2 * r > PercentScale THEN q + 1
        ELSE IF q % 2 = 0 THEN q ELSE q + 1

\* subtotal += line_total
Accumulate(subtotal, line_total) == subtotal + line_total

\* one iteration of the loop over selected_products
GenerateOrdersInsertItem ==
    /\ InStage("orders") /\ step = "items" /\ cur.selected # <<>>
    /\ \E quantity \in QuantityPool, disc_pct \in DiscPctPool :
          LET product_id == Head(cur.selected)
              unit_price == PriceOfProduct(product_id)
              line_total == LineTotal(unit_price, quantity, disc_pct)
          IN  /\ Spend(quantity = 1 /\ disc_pct = 0)
              /\ InsertRows("order_items", <<[order_id |-> cur.order_id,
                                              product_id |-> product_id,
                                              quantity |-> quantity,
                                              unit_price |-> unit_price,
                                              discount_percent |-> disc_pct,
                                              line_total |-> line_total]>>)
              /\ cur' = [cur EXCEPT !.selected = Tail(@),
                                    !.subtotal = Accumulate(@, line_total)]
    /\ UNCHANGED <<durable, idVars, phase, pc, step, i, runLog, calc>>

\* a total that forgets the shipping cost
OrderTotalNoShipping(subtotal, shipping, discount) == subtotal - discount

\* round(subtotal + shipping - discount, 2): a sum of whole cents
OrderTotal(subtotal, shipping, discount) == subtotal + shipping - discount

\* UPDATE orders SET total_amount = %s WHERE order_id = %s
UpdateTotal(rows, order_id, total) ==
    [k \in 1..Len(rows) |->
        IF rows[k].id = order_id THEN [rows[k] EXCEPT !.total_amount = total]
        ELSE rows[k]]

\* a batch commit after every order
BatchBoundaryEveryOrder(n) == TRUE

\* if (i + 1) % 500 == 0: conn.commit()
BatchBoundary(n) == (n + 1) % BatchSize = 0

\* the UPDATE of the total and the batch commit that ends the iteration
GenerateOrdersUpdateTotal ==
    /\ InStage("orders") /\ step = "items" /\ cur.selected = <<>>
    /\ db' = [db EXCEPT !["orders"] =
                 UpdateTotal(@, cur.order_id,
                             OrderTotal(cur.subtotal, cur.shipping, cur.discount))]
    /\ durable' = IF BatchBoundary(i) THEN db' ELSE durable
    /\ i' = i + 1
    /\ step' = "loop"
    /\ UNCHANGED <<nextId, idVars, phase, pc, cur, runLog, varied, calc>>

(***************************************************************************)
(* generate_reviews, generate_tickets.                                     *)
(***************************************************************************)
GenerateReviewsInsert ==
    /\ InStage("reviews") /\ step = "loop" /\ i < NumReviews
    /\ \E product_id \in Range(product_ids), customer_id \in Range(customer_ids) :
          /\ Spend(product_id = product_ids[1] /\ customer_id = customer_ids[1])
          /\ InsertRows("reviews", <<[product_id |-> product_id,
                                      customer_id |-> customer_id]>>)
    /\ i' = i + 1
    /\ UNCHANGED <<durable, idVars, phase, pc, step, cur, runLog, calc>>

\* a resolved date kept for resolved tickets only
ResolvedDateResolvedOnly(status, created, days) ==
    IF status = "Resolved" THEN created + days ELSE None

ResolvedDate(status, created, days) ==
    IF status \in {"Resolved", "Closed"} THEN created + days ELSE None

GenerateTicketsInsert ==
    /\ InStage("tickets") /\ step = "loop" /\ i < NumTickets
    /\ \E customer_id \in Range(customer_ids), created \in CreatedPool,
          s \in DOMAIN TicketStatuses,
          days \in ResolveDaysLow..ResolveDaysHigh :
          LET status == TicketStatuses[s]
          IN  /\ status \notin {"Resolved", "Closed"} => days = ResolveDaysLow
              /\ Spend(/\ customer_id = customer_ids[1]
                       /\ created = CHOOSE d \in CreatedPool :
                                       \A e \in CreatedPool : d <= e
                       /\ s = 1
                       /\ days = ResolveDaysLow)
              /\ InsertRows("customer_support_tickets",
                            <<[customer_id |-> customer_id,
                               status |-> status,
                               created_date |-> created,
                               resolved_date |-> ResolvedDate(status, created, days)]>>)
    /\ i' = i + 1
    /\ UNCHANGED <<durable, idVars, phase, pc, step, cur, runLog, calc>>

(***************************************************************************)
(* The end of a generator: conn.commit(), and for the generators that      *)
(* return identifiers the SELECT whose result main() keeps.                *)
(***************************************************************************)
LoopCount(s) ==
    CASE s = "categories" -> NumCategories
      [] s = "suppliers" -> NumSuppliers
      [] s = "products" -> NumProducts
      [] s = "warehouses" -> NumWarehouses
      [] s = "inventory" -> Len(product_ids)
      [] s = "customers" -> NumCustomers
      [] s = "orders" -> NumOrders
      [] s = "reviews" -> NumReviews
      [] s = "tickets" -> NumTickets
      [] OTHER -> 0

Returning == {"categories", "suppliers", "products", "warehouses", "customers"}

TableOf(s) == IF s = "tickets" THEN "customer_support_tickets" ELSE s

StageIndex(s) == CHOOSE k \in DOMAIN Stages : Stages[k] = s

\* the generator main() calls after s
NextStage(s) ==
    IF StageIndex(s) < Len(Stages) THEN Stages[StageIndex(s) + 1] ELSE "end"

\* a commit that makes nothing durable
CommitNothing(connView, committed) == committed

\* conn.commit()
Commit(connView, committed) == connView

StageCommit ==
    /\ phase = "running" /\ pc # "end" /\ step = "loop" /\ i = LoopCount(pc)
    /\ durable' = Commit(db, durable)
    /\ IF pc \in Returning
       THEN step' = "select" /\ UNCHANGED <<pc, i>>
       ELSE pc' = NextStage(pc) /\ i' = 0 /\ UNCHANGED step
    /\ UNCHANGED <<db, nextId, idVars, cur, phase, runLog, varied, calc>>

\* cursor.execute("SELECT ..._id FROM ..."); return [row[0] for row in ...]
StageReturn ==
    /\ phase = "running" /\ step = "select"
    /\ category_ids' = IF pc = "categories" THEN SelectIds(db, "categories")
                       ELSE category_ids
    /\ supplier_ids' = IF pc = "suppliers" THEN SelectIds(db, "suppliers")
                       ELSE supplier_ids
    /\ product_ids' = IF pc = "products" THEN SelectIds(db, "products")
                      ELSE product_ids
    /\ warehouse_ids' = IF pc = "warehouses" THEN SelectIds(db, "warehouses")
                        ELSE warehouse_ids
    /\ customer_ids' = IF pc = "customers" THEN SelectIds(db, "customers")
                       ELSE customer_ids
    /\ pc' = NextStage(pc)
    /\ step' = "loop"
    /\ i' = 0
    /\ UNCHANGED <<db, durable, nextId, cur, phase, runLog, varied, calc>>

(***************************************************************************)
(* main(): the except and finally blocks, and the normal end.              *)
(***************************************************************************)
\* conn.rollback()
Rollback(connView, committed) == committed

\* a statement of a generator raises: except Exception, rollback, close
Fail ==
    /\ phase = "running" /\ pc # "end"
    /\ db' = Rollback(db, durable)
    /\ phase' = "failed"
    /\ runLog' = [runLog EXCEPT ![LastRun].outcome = "failed"]
    /\ UNCHANGED <<durable, nextId, idVars, pc, step, i, cur, varied, calc>>

Finish ==
    /\ phase = "running" /\ pc = "end"
    /\ phase' = "done"
    /\ runLog' = [runLog EXCEPT ![LastRun].outcome = "ok"]
    /\ UNCHANGED <<db, durable, nextId, idVars, pc, step, i, cur, varied, calc>>

Next ==
    \/ StartRun
    \/ ConnectFail
    \/ GenerateCategoriesInsert
    \/ GenerateSuppliersInsert
    \/ GenerateProductsInsert
    \/ GenerateWarehousesInsert
    \/ GenerateInventoryProduct
    \/ GenerateCustomersInsert
    \/ GenerateOrdersInsertOrder
    \/ GenerateOrdersSelectProducts
    \/ GenerateOrdersInsertItem
    \/ GenerateOrdersUpdateTotal
    \/ GenerateReviewsInsert
    \/ GenerateTicketsInsert
    \/ StageCommit
    \/ StageReturn
    \/ Fail
    \/ Finish

Spec == Init /\ [][Next]_vars

(***************************************************************************)
(* The price computation of generate_products on its own: cost and markup  *)
(* are drawn from both ends of their ranges, the action applies PriceOf.   *)
(***************************************************************************)
CostSpan == 40
MarkupSpan == 3

CostSamples == (CostLow..(CostLow + CostSpan)) \cup ((CostHigh - CostSpan)..CostHigh)

MarkupSamples ==
    (MarkupLow..(MarkupLow + MarkupSpan)) \cup ((MarkupHigh - MarkupSpan)..MarkupHigh)

InitPrice ==
    /\ db = EmptySchema
    /\ durable = EmptySchema
    /\ nextId = [t \in Tables |-> 1]
    /\ category_ids = <<>>
    /\ supplier_ids = <<>>
    /\ product_ids = <<>>
    /\ warehouse_ids = <<>>
    /\ customer_ids = <<>>
    /\ phase = "idle"
    /\ pc = "products"
    /\ step = "loop"
    /\ i = 0
    /\ cur = NoOrder
    /\ runLog = <<>>
    /\ varied = 0
    /\ calc \in [cost : CostSamples, markup : MarkupSamples, price : {None}]

ComputePrice ==
    /\ calc.price = None
    /\ calc' = [calc EXCEPT !.price = PriceOf(calc.cost, calc.markup)]
    /\ UNCHANGED <<db, durable, nextId, idVars, phase, pc, step, i, cur,
                   runLog, varied>>

NextPrice == ComputePrice

SpecPrice == InitPrice /\ [][NextPrice]_vars

(***************************************************************************)
(* Views of the state used by the properties.                              *)
(***************************************************************************)
\* the rows of table t that run r inserted
RunRows(schema, t, r) ==
    SelectSeq(schema[t],
              LAMBDA row : /\ row.id >= runLog[r].first[t]
                           /\ r < Len(runLog) => row.id < runLog[r + 1].first[t])

ItemsOf(schema, order_id) ==
    SelectSeq(schema["order_items"], LAMBDA row : row.order_id = order_id)

InventoryOf(schema, product_id) ==
    SelectSeq(schema["inventory"], LAMBDA row : row.product_id = product_id)

LineTotals(items) == [k \in 1..Len(items) |-> items[k].line_total]

Distinct(s) == \A a, b \in 1..Len(s) : a # b => s[a] # s[b]

\* the order generate_orders is still building
UnderConstruction(order) ==
    /\ phase \in {"running", "failed"} /\ pc = "orders"
    /\ step \in {"sample", "items"}
    /\ order.id = cur.order_id

\* generate_orders has returned in every run so far
OrderStageCompleted ==
    /\ runLog # <<>>
    /\ \/ phase \in {"done", "noconn"}
       \/ phase \in {"running", "failed"} /\ pc \in {"reviews", "tickets", "end"}

\* the generator of stage s had committed when the run stopped or got here
CommittedStage(s) ==
    \/ pc = "end"
    \/ StageIndex(s) < StageIndex(pc)
    \/ s = pc /\ step = "select"

\* the tables that get one row per loop iteration of their generator
FixedCount == {"categories", "suppliers", "products", "warehouses",
               "customers", "orders", "reviews", "customer_support_tickets"}

\* the rows of run r that stage s left in the committed schema
Kept(s, r) == Len(RunRows(durable, TableOf(s), r))

\* stage s of the last run kept every row its generator wrote
KeptAll(s) ==
    IF s = "inventory"
    THEN /\ Kept(s, LastRun) >= Len(product_ids)
         /\ Kept(s, LastRun) <= MaxWarehousesPerProduct * Len(product_ids)
    ELSE Kept(s, LastRun) = LoopCount(s)

\* the total of the order is the one its committed items give
TotalMatches(schema, order) ==
    order.total_amount =
        SumSeq(LineTotals(ItemsOf(schema, order.id)))
            + order.shipping_cost - order.discount_amount

\* child table, column, parent table
ForeignKeys ==
    {<<"products", "category_id", "categories">>,
     <<"products", "supplier_id", "suppliers">>,
     <<"inventory", "product_id", "products">>,
     <<"inventory", "warehouse_id", "warehouses">>,
     <<"orders", "customer_id", "customers">>,
     <<"order_items", "order_id", "orders">>,
     <<"order_items", "product_id", "products">>,
     <<"reviews", "product_id", "products">>,
     <<"reviews", "customer_id", "customers">>,
     <<"customer_support_tickets", "customer_id", "customers">>}

ItemToOrder == <<"order_items", "order_id", "orders">>

\* the rows this step inserts into table t
InsertedNow(t) ==
    IF Len(db'[t]) > Len(db[t]) THEN SubSeq(db'[t], Len(db[t]) + 1, Len(db'[t]))
    ELSE <<>>

\* every foreign key this step writes names a row committed before the step
WritesCommittedParent(fk) ==
    \A row \in Range(InsertedNow(fk[1])) : row[fk[2]] \in Ids(durable, fk[3])

\* every identifier list the current generator consumes is the committed
\* content of its table, read back
StageInputsReady ==
    phase = "running" =>
        /\ pc = "products" =>
              /\ category_ids = SelectIds(durable, "categories")
              /\ supplier_ids = SelectIds(durable, "suppliers")
        /\ pc = "inventory" =>
              /\ product_ids = SelectIds(durable, "products")
              /\ warehouse_ids = SelectIds(durable, "warehouses")
        /\ pc \in {"orders", "reviews"} =>
              /\ customer_ids = SelectIds(durable, "customers")
              /\ product_ids = SelectIds(durable, "products")
        /\ pc = "tickets" => customer_ids = SelectIds(durable, "customers")

ReferencesExist(schema) ==
    \A fk \in ForeignKeys :
        \A row \in Range(schema[fk[1]]) : row[fk[2]] \in Ids(schema, fk[3])

TwoRunsDone ==
    /\ Len(runLog) = 2 /\ phase = "done"
    /\ runLog[1].outcome = "ok" /\ runLog[2].outcome = "ok"

\* rows of table t after the first run, and after the second
AfterFirst(t) == runLog[2].before[t]
AfterSecond(t) == Len(durable[t])

(***************************************************************************)
(* C1.  When a statement fails during generation, the rollback of the      *)
(* top-level handler leaves no row of this run in the database.            *)
(***************************************************************************)
C1NoRowOfTheRunRemains ==
    phase = "failed" => \A t \in Tables : RunRows(durable, t, LastRun) = <<>>

(***************************************************************************)
(* What the rollback does undo.  When a statement fails, the rollback      *)
(* discards only the rows of the transaction open at that moment: every    *)
(* generator that had committed keeps all the rows it wrote, the failing   *)
(* generator keeps none (generate_orders: only whole committed batches),   *)
(* and the generators not yet called have written nothing.                 *)
(***************************************************************************)
RollbackKeepsCommittedStages ==
    phase = "failed" =>
        /\ db = durable
        /\ \A k \in DOMAIN Stages :
              LET s == Stages[k]
              IN  /\ CommittedStage(s) => KeptAll(s)
                  /\ (~CommittedStage(s) /\ ~(s = "orders" /\ pc = "orders"))
                        => Kept(s, LastRun) = 0
                  /\ (~CommittedStage(s) /\ s = "orders" /\ pc = "orders")
                        => /\ Kept(s, LastRun) % BatchSize = 0
                           /\ Kept(s, LastRun) <= i

\* a run that failed in generate_products after its first INSERT: the
\* product is gone, the categories and suppliers of the run are kept
FailedInProducts ==
    /\ phase = "failed" /\ pc = "products" /\ step = "loop" /\ i = 1
    /\ Kept("products", LastRun) = 0
    /\ Kept("categories", LastRun) = NumCategories
    /\ Kept("suppliers", LastRun) = NumSuppliers

(***************************************************************************)
(* C10.  When generate_orders fails while processing its order number      *)
(* i + 1, the rollback leaves exactly BatchSize * floor(i / BatchSize)     *)
(* orders of this run committed, together with all rows of the earlier     *)
(* stages; every order left has items and its recomputed total.            *)
(***************************************************************************)
FailedInOrder ==
    /\ phase = "failed" /\ pc = "orders"
    /\ step \in {"sample", "items"} \/ (step = "loop" /\ i < NumOrders)

C2EveryTableDoubles ==
    TwoRunsDone =>
        /\ \A t \in Tables : AfterSecond(t) = 2 * AfterFirst(t)
        /\ ReferencesExist(durable)

(***************************************************************************)
(* What two runs do give.  After two successful runs on an empty schema    *)
(* the tables with one row per iteration (categories, suppliers, products, *)
(* warehouses, customers, orders, reviews, tickets) hold exactly twice the *)
(* rows of the first run; the second run adds 1 to 2 inventory rows for    *)
(* every product of both runs, so inventory holds at least twice the rows  *)
(* of the first run, and it adds 1 to 4 order items for each of its        *)
(* orders whatever the first run added; every foreign key names an         *)
(* existing parent row.                                                    *)
(***************************************************************************)
FixedTablesDouble ==
    TwoRunsDone =>
        /\ \A t \in FixedCount : AfterSecond(t) = 2 * AfterFirst(t)
        /\ \A product_id \in Ids(durable, "products") :
              Len(SelectSeq(RunRows(durable, "inventory", 2),
                            LAMBDA row : row.product_id = product_id))
                 \in 1..MaxWarehousesPerProduct
        /\ AfterSecond("inventory") >= 2 * AfterFirst("inventory")
        /\ Len(RunRows(durable, "order_items", 2)) >= NumOrders
        /\ Len(RunRows(durable, "order_items", 2)) <= MaxItemsPerOrder * NumOrders
        /\ ReferencesExist(durable)

\* two runs completed and the second one wrote more inventory rows than the
\* first, for products of the first run as well
InventoryMoreThanDoubled ==
    /\ TwoRunsDone
    /\ AfterSecond("inventory") > 2 * AfterFirst("inventory")
    /\ \E row \in Range(RunRows(durable, "inventory", 2)) :
          row.product_id < runLog[2].first["products"]

(***************************************************************************)
(* C3.  As claimed: once generate_orders has returned, every order has     *)
(* total_amount = sum of the line totals of its items + shipping_cost -    *)
(* discount_amount, and none has the total 0 it was inserted with.         *)
(***************************************************************************)
C3TotalRecomputedAndNotZero ==
    OrderStageCompleted =>
        \A order \in Range(db["orders"]) :
            /\ TotalMatches(db, order)
            /\ order.total_amount # 0

(***************************************************************************)
(* C3, amended.  Once generate_orders has returned, every order has        *)
(* total_amount = sum of the line totals of its items + shipping_cost -    *)
(* discount_amount; that value can itself be 0 (or negative) when the      *)
(* discount reaches the items plus the shipping cost, so a total of 0 does *)
(* not tell a recomputed order from the placeholder.                       *)
(***************************************************************************)
C3TotalRecomputed ==
    OrderStageCompleted =>
        \A order \in Range(db["orders"]) :
            /\ ItemsOf(db, order.id) # <<>>
            /\ TotalMatches(db, order)

\* a finished order whose items and shipping cost equal its discount
C3Witness ==
    /\ OrderStageCompleted
    /\ \E order \in Range(db["orders"]) :
          /\ order.total_amount = 0
          /\ order.discount_amount > 0
          /\ SumSeq(LineTotals(ItemsOf(db, order.id))) > 0

(***************************************************************************)
(* C4.  As claimed: every foreign key a generator writes names a parent    *)
(* row that was committed before the child row was inserted, and main()    *)
(* enters a generator only with identifier lists that were committed and   *)
(* read back.                                                              *)
(***************************************************************************)
C4EveryParentCommitted ==
    [][/\ \A fk \in ForeignKeys : WritesCommittedParent(fk)
       /\ StageInputsReady']_vars

(***************************************************************************)
(* C4, amended.  Every foreign key a generator writes names a parent row   *)
(* that was committed before the child row was inserted, except the order  *)
(* of an order item: that order row was inserted earlier in the same       *)
(* transaction and is not committed yet.  main() enters a generator only   *)
(* with identifier lists that were committed and read back.                *)
(***************************************************************************)
C4ParentsCommittedButTheOrder ==
    [][/\ \A fk \in ForeignKeys \ {ItemToOrder} : WritesCommittedParent(fk)
       /\ \A row \in Range(InsertedNow("order_items")) :
             /\ row.order_id \in Ids(db, "orders")
             /\ row.order_id \notin Ids(durable, "orders")
       /\ StageInputsReady']_vars

\* an order item is in the table while its order is not committed
C4Witness ==
    /\ InStage("orders") /\ step = "items"
    /\ ItemsOf(db, cur.order_id) # <<>>
    /\ cur.order_id \notin Ids(durable, "orders")
    /\ \A item \in Range(ItemsOf(db, cur.order_id)) :
          item.product_id \in Ids(durable, "products")

(***************************************************************************)
(* C5.  Every order row: shipping_date is set exactly for the statuses     *)
(* Shipped and Delivered and is then 1 to 3 days after order_date;         *)
(* delivery_date is set exactly for Delivered and is then 2 to 7 days      *)
(* after shipping_date; a Processing order has neither date.               *)
(***************************************************************************)
C5DatesFollowStatus ==
    \A order \in Range(db["orders"]) :
        /\ order.shipping_date # None <=> order.status \in {"Shipped", "Delivered"}
        /\ order.shipping_date # None =>
              (order.shipping_date - order.order_date) \in ShipDaysLow..ShipDaysHigh
        /\ order.delivery_date # None <=> order.status = "Delivered"
        /\ order.delivery_date # None =>
              /\ order.shipping_date # None
              /\ (order.delivery_date - order.shipping_date)
                    \in DeliveryDaysLow..DeliveryDaysHigh
        /\ order.status = "Processing" =>
              order.shipping_date = None /\ order.delivery_date = None

\* a shipped order, sent after the longest delay and not delivered
C5Witness ==
    \E order \in Range(db["orders"]) :
        /\ order.status = "Shipped"
        /\ order.shipping_date = order.order_date + ShipDaysHigh
        /\ order.delivery_date = None

(***************************************************************************)
(* C6.  After generate_inventory has run, every inventory row names a      *)
(* product of the product list and a warehouse of the warehouse list, and  *)
(* every product of the list has 1 to 2 inventory rows, for pairwise       *)
(* distinct warehouses and never more rows than there are warehouses.      *)
(***************************************************************************)
InventoryStageCompleted ==
    /\ runLog # <<>>
    /\ runLog[LastRun].outcome \in {"running", "ok"}
    /\ StageIndex("inventory") < (IF pc = "end" THEN Len(Stages) + 1 ELSE StageIndex(pc))

C6OneOrTwoWarehousesPerProduct ==
    InventoryStageCompleted =>
        /\ \A row \in Range(db["inventory"]) :
              /\ row.product_id \in Range(product_ids)
              /\ row.warehouse_id \in Range(warehouse_ids)
        /\ \A product_id \in Range(product_ids) :
              LET rows == InventoryOf(db, product_id)
              IN  /\ Len(rows) >= 1
                  /\ Len(rows) <= MaxWarehousesPerProduct
                  /\ Len(rows) <= Len(warehouse_ids)
                  /\ Distinct([k \in 1..Len(rows) |-> rows[k].warehouse_id])

(***************************************************************************)
(* C7.  Every order generate_orders has finished has 1 to 4 order items,   *)
(* for pairwise distinct products of the product pool, and never more      *)
(* items than the pool has products; an order still being built has no     *)
(* more than that.                                                         *)
(***************************************************************************)
C7ItemsAreDistinctProducts ==
    \A order \in Range(db["orders"]) :
        LET items == ItemsOf(db, order.id)
            pool == IF order.id >= runLog[LastRun].first["orders"]
                    THEN Range(product_ids)
                    ELSE {p \in Ids(db, "products") :
                             p < runLog[LastRun].first["products"]}
        IN  /\ UnderConstruction(order) \/ Len(items) >= 1
            /\ Len(items) <= MaxItemsPerOrder
            /\ Len(items) <= Cardinality(pool)
            /\ Distinct([k \in 1..Len(items) |-> items[k].product_id])
            /\ \A k \in 1..Len(items) : items[k].product_id \in pool

\* a finished order with as many items as the pool allows, more than one
C7Witness ==
    \E order \in Range(db["orders"]) :
        /\ ~UnderConstruction(order)
        /\ Len(ItemsOf(db, order.id)) = Min(MaxItemsPerOrder, Len(product_ids))
        /\ Len(ItemsOf(db, order.id)) > 1
        /\ order.total_amount # 0

(***************************************************************************)
(* C8.  Every ticket row: resolved_date is set exactly for the statuses    *)
(* Resolved and Closed and is then 1 to 10 days after created_date.        *)
(***************************************************************************)
C8ResolvedDateFollowsStatus ==
    \A ticket \in Range(db["customer_support_tickets"]) :
        /\ ticket.resolved_date # None <=> ticket.status \in {"Resolved", "Closed"}
        /\ ticket.resolved_date # None =>
              (ticket.resolved_date - ticket.created_date)
                  \in ResolveDaysLow..ResolveDaysHigh
        /\ ticket.status \in {"Open", "In Progress"} => ticket.resolved_date = None

\* a closed ticket resolved after the longest delay
C8Witness ==
    \E ticket \in Range(db["customer_support_tickets"]) :
        /\ ticket.status = "Closed"
        /\ ticket.resolved_date = ticket.created_date + ResolveDaysHigh

(***************************************************************************)
(* C9.  The price generate_products computes is strictly greater than the  *)
(* cost, for costs from 10.00 to 300.00 and markups from 1.5 to 3.0, both  *)
(* rounded to cents.                                                       *)
(***************************************************************************)
C9PriceAboveCost ==
    calc.price # None => calc.price > calc.cost

\* the smallest cost at the smallest markup has been priced
C9Witness ==
    /\ calc.cost = CostLow /\ calc.markup = MarkupLow
    /\ calc.price = PriceOf(CostLow, MarkupLow)
    /\ calc.price # None
====
